---- MODULE Spec2Model ----
(***************************************************************************)
(* Model of the command-line argument parser of arg_parser (src/main.rs). *)
(*                                                                         *)
(* A token (one element of env::args()) is the record                     *)
(* [dashes |-> n, body |-> s]: the string made of n '-' characters         *)
(* followed by s, where s does not begin with '-'.  "--api-sock" is        *)
(* Tok(2, "api-sock"), the bare separator "--" is Tok(2, ""), "----" is    *)
(* Tok(4, ""), "---help" is Tok(3, "help") and the value "foo.json" is     *)
(* Tok(0, "foo.json").  Every string has exactly one such decomposition,   *)
(* so equality of tokens is equality of the strings.                       *)
(*                                                                         *)
(* An Option<T> of the source is a set with at most one element.           *)
(* A failure kind names the panic that ends the run.                       *)
(***************************************************************************)
EXTENDS Naturals, Sequences, FiniteSets, TLC

VARIABLES args, params, fc_extra_args, values, i, pc, outcome

vars == <<args, params, fc_extra_args, values, i, pc, outcome>>

\* Longest invocation considered (tokens after the program name).
MaxLen == 4

\* Length of the "--" prefix tested by starts_with and removed by
\* trim_start_matches.
PrefixLen == 2

Tok(d, b) == [dashes |-> d, body |-> b]

DEFAULT_API_SOCK_PATH == Tok(0, "/tmp/firecracker.socket")

DEFAULT_INSTANCE_ID == Tok(0, "anonymous-instance")

\* The program name, args[0].
ProgramName == Tok(0, "arg_parser")

\* The "" stored for a flag-only argument.
EmptyStr == Tok(0, "")

\* The bare separator "--".
Separator == Tok(PrefixLen, "")

\* The tokens an invocation is drawn from.
FlagTokens ==
  { Tok(PrefixLen, n) : n \in { "help", "api-sock", "id", "seccomp-level",
                                "start-time-us", "start-time-cpu-us", "no-api",
                                "config-file", "extra-args", "bogus" } }

DashTokens == { Separator, Tok(PrefixLen + PrefixLen, ""), Tok(PrefixLen + 1, "help") }

ValueTokens == { Tok(0, "foo.json"), Tok(0, "1"), Tok(0, "3") }

Tokens == FlagTokens \cup DashTokens \cup ValueTokens

\* x.starts_with("--")
starts_with(x) == x.dashes >= PrefixLen

\* x.trim_start_matches("--"): every leading repetition of "--" is removed,
\* which leaves one '-' when the number of leading dashes is odd.
trim_start_matches(x) ==
  (IF x.dashes % PrefixLen = 0 THEN "" ELSE "-") \o x.body

\* slice.contains(&x)
Contains(seq, x) == \E k \in 1..Len(seq) : seq[k] = x

\* args.get(k), with the 0-based index of the source.
Get(a, k) == IF k < Len(a) THEN { a[k + 1] } ELSE {}

\* args[k], with the 0-based index of the source.
At(a, k) == a[k + 1]

\* HashMap::insert
Insert(vals, k, v) ==
  [x \in (DOMAIN vals) \cup {k} |-> IF x = k THEN v ELSE vals[x]]

\* HashMap::new()
EmptyMap == [x \in {} |-> EmptyStr]

\* ArgumentInfo::new
ArgumentInfo(name, required, conflicts_with, requires, takes_value, default_value) ==
  [name |-> name, required |-> required, conflicts_with |-> conflicts_with,
   requires |-> requires, takes_value |-> takes_value,
   default_value |-> default_value]

\* The registry built by main.
fc_args ==
  << ArgumentInfo("api-sock", FALSE, {}, {}, TRUE, {DEFAULT_API_SOCK_PATH}),
     ArgumentInfo("id", FALSE, {}, {}, TRUE, {DEFAULT_INSTANCE_ID}),
     ArgumentInfo("seccomp-level", FALSE, {}, {}, TRUE, {Tok(0, "2")}),
     ArgumentInfo("start-time-us", FALSE, {}, {}, TRUE, {}),
     ArgumentInfo("start-time-cpu-us", FALSE, {}, {}, TRUE, {}),
     ArgumentInfo("no-api", FALSE, {}, {"config-file"}, FALSE, {}),
     ArgumentInfo("config-file", FALSE, {}, {}, TRUE, {}),
     ArgumentInfo("extra-args", FALSE, {}, {}, TRUE, {}) >>

\* The separate list of known flag names.
fc_args_str ==
  << "api-sock", "id", "seccomp-level", "start-time-us", "start-time-cpu-us",
     "no-api", "config-file" >>

seccomp_values == << Tok(0, "0"), Tok(0, "1"), Tok(0, "2") >>

\* let params = args.iter().filter(starts_with "--").map(trim).collect()
Params(a) ==
  LET f == SelectSeq(a, starts_with)
  IN  [k \in 1..Len(f) |-> trim_start_matches(f[k])]

\* args.iter().position(|r| r == "--"), 0-based, as an Option.
Position(a) ==
  LET hits == { k \in 0..(Len(a) - 1) : At(a, k) = Separator }
  IN  IF hits = {} THEN {} ELSE { CHOOSE k \in hits : \A m \in hits : k <= m }

\* The computation of fc_extra_args: the two unwrap() calls panic on None.
ExtraArgs(a, p) ==
  IF Len(p) = 0
    THEN [kind |-> "NoFlagPanic", extra |-> << >>]
    ELSE IF p[Len(p)] = ""
      THEN IF Position(a) = {}
             THEN [kind |-> "NoSeparatorPanic", extra |-> << >>]
             ELSE LET index == CHOOSE k \in Position(a) : TRUE
                  IN  [kind |-> "ok", extra |-> SubSeq(a, index + 2, Len(a))]
      ELSE [kind |-> "ok", extra |-> << >>]

\* check_is_valid(argument_info, params): "ok" or the panic raised.
check_is_valid(argument_info, p) ==
  IF \E arg_name \in argument_info.conflicts_with : Contains(p, arg_name)
    THEN "ConflictingArgument"
    ELSE IF \E arg_name \in argument_info.requires : ~Contains(p, arg_name)
      THEN "MissingDependency"
      ELSE IF /\ argument_info.takes_value
              /\ argument_info.required
              /\ argument_info.default_value = {}
              /\ ~Contains(p, argument_info.name)
        THEN "MissingRequiredArgument"
        ELSE "ok"

\* The value-taking branch of the scan loop, after check_is_valid.
TakesValueBranch(a, idx, name, vals) ==
  IF /\ Get(a, idx + 1) # {}
     /\ \E x \in Get(a, idx + 2) : ~starts_with(x)
    THEN [kind |-> "UnexpectedToken", values |-> vals]
    ELSE IF Get(a, idx + 1) = {}
      THEN [kind |-> "MissingValue", values |-> vals]
      ELSE LET param_value == At(a, idx + 1)
           IN  IF name = "seccomp-level" /\ ~Contains(seccomp_values, param_value)
                 THEN [kind |-> "InvalidEnumValue", values |-> vals]
                 ELSE [kind |-> "ok", values |-> Insert(vals, name, param_value)]

\* The flag-only branch of the scan loop, after check_is_valid.
FlagOnlyBranch(a, idx, name, vals) ==
  IF \E x \in Get(a, idx + 1) : ~starts_with(x)
    THEN [kind |-> "UnexpectedToken", values |-> vals]
    ELSE [kind |-> "ok", values |-> Insert(vals, name, EmptyStr)]

\* The body with the value checks made before check_is_valid.
MatchedSpecValueFirst(argument_info, a, p, idx, name, vals) ==
  LET r == IF argument_info.takes_value
             THEN TakesValueBranch(a, idx, name, vals)
             ELSE FlagOnlyBranch(a, idx, name, vals)
      valid == check_is_valid(argument_info, p)
  IN  IF r.kind # "ok"
        THEN r
        ELSE IF valid # "ok" THEN [kind |-> valid, values |-> vals] ELSE r

\* The body of `if argument_info.name == name { ... }`.
MatchedSpec(argument_info, a, p, idx, name, vals) ==
  LET valid == check_is_valid(argument_info, p)
  IN  IF valid # "ok"
        THEN [kind |-> valid, values |-> vals]
        ELSE IF argument_info.takes_value
          THEN TakesValueBranch(a, idx, name, vals)
          ELSE FlagOnlyBranch(a, idx, name, vals)

\* for argument_info in fc_args.iter() { ... } for the flag token at idx,
\* from registry position k on.
RECURSIVE ForEachSpec(_, _, _, _, _)
ForEachSpec(a, p, idx, k, vals) ==
  IF k > Len(fc_args)
    THEN [kind |-> "ok", values |-> vals]
    ELSE LET argument_info == fc_args[k]
             name == trim_start_matches(At(a, idx))
         IN  IF ~Contains(fc_args_str, name)
               THEN [kind |-> "UnknownArgument", values |-> vals]
               ELSE IF argument_info.name = name
                 THEN LET r == MatchedSpec(argument_info, a, p, idx, name, vals)
                      IN  IF r.kind # "ok"
                            THEN r
                            ELSE ForEachSpec(a, p, idx, k + 1, r.values)
                 ELSE ForEachSpec(a, p, idx, k + 1, vals)

\* if item.starts_with("--") && item != "--"
IsFlagItem(item) == starts_with(item) /\ item # Separator

\* One iteration of `for (i, &item) in args.iter().enumerate()`.
ScanItem(a, p, idx, vals) ==
  IF IsFlagItem(At(a, idx))
    THEN ForEachSpec(a, p, idx, 1, vals)
    ELSE [kind |-> "ok", values |-> vals]

\* The loop that stores the default of every required argument not supplied,
\* from registry position k on; default_value.unwrap() panics on None.
RECURSIVE ApplyDefaults(_, _, _)
ApplyDefaults(p, k, vals) ==
  IF k > Len(fc_args)
    THEN [kind |-> "ok", values |-> vals]
    ELSE LET arg == fc_args[k]
         IN  IF arg.required /\ ~Contains(p, arg.name)
               THEN IF arg.default_value = {}
                      THEN [kind |-> "MissingRequiredArgument", values |-> vals]
                      ELSE ApplyDefaults(p, k + 1,
                             Insert(vals, arg.name,
                                    CHOOSE d \in arg.default_value : TRUE))
               ELSE ApplyDefaults(p, k + 1, vals)

\* The lookup without its expect(): a run that never misses api-sock.
BindPathUnchecked(vals) == "Ok"

\* values.get("api-sock").map(PathBuf::from).expect("Missing argument: api-sock")
BindPath(vals) ==
  IF "api-sock" \in DOMAIN vals THEN "Ok" ELSE "MissingApiSock"

\* params.contains(&"help")
HelpRequested(p) == Contains(p, "help")

Init ==
  /\ \E n \in 0..MaxLen : \E inv \in [1..n -> Tokens] :
       args = <<ProgramName>> \o inv
  /\ params = << >>
  /\ fc_extra_args = << >>
  /\ values = EmptyMap
  /\ i = 0
  /\ pc = "start"
  /\ outcome = "running"

\* params and fc_extra_args are computed.
ParseParams ==
  /\ pc = "start"
  /\ LET p == Params(args)
         e == ExtraArgs(args, p)
     IN  /\ params' = p
         /\ fc_extra_args' = e.extra
         /\ IF e.kind = "ok"
              THEN pc' = "help_check" /\ outcome' = outcome
              ELSE pc' = "done" /\ outcome' = e.kind
  /\ UNCHANGED <<args, values, i>>

\* The help branch: print the registry's help and return.
HelpCheck ==
  /\ pc = "help_check"
  /\ IF HelpRequested(params)
       THEN pc' = "done" /\ outcome' = "Help"
       ELSE pc' = "scan" /\ outcome' = outcome
  /\ UNCHANGED <<args, params, fc_extra_args, values, i>>

\* One iteration of the scan loop.
ScanToken ==
  /\ pc = "scan"
  /\ i < Len(args)
  /\ LET r == ScanItem(args, params, i, values)
     IN  /\ values' = r.values
         /\ IF r.kind = "ok"
              THEN i' = i + 1 /\ pc' = pc /\ outcome' = outcome
              ELSE i' = i /\ pc' = "done" /\ outcome' = r.kind
  /\ UNCHANGED <<args, params, fc_extra_args>>

\* After the loop: defaults of required arguments, then the api-sock lookup.
Finalize ==
  /\ pc = "scan"
  /\ i = Len(args)
  /\ LET d == ApplyDefaults(params, 1, values)
     IN  /\ values' = d.values
         /\ pc' = "done"
         /\ outcome' = IF d.kind = "ok" THEN BindPath(d.values) ELSE d.kind
  /\ UNCHANGED <<args, params, fc_extra_args, i>>

Next == ParseParams \/ HelpCheck \/ ScanToken \/ Finalize

Spec == Init /\ [][Next]_vars

\* main as a whole: the scan loop from index idx on.
RECURSIVE ScanFrom(_, _, _, _)
ScanFrom(a, p, idx, vals) ==
  IF idx >= Len(a)
    THEN [kind |-> "ok", values |-> vals]
    ELSE LET r == ScanItem(a, p, idx, vals)
         IN  IF r.kind # "ok" THEN r ELSE ScanFrom(a, p, idx + 1, r.values)

\* main as a whole: the outcome, the map and the trailing segment for args a.
Main(a) ==
  LET p == Params(a)
      e == ExtraArgs(a, p)
  IN  IF e.kind # "ok"
        THEN [outcome |-> e.kind, values |-> EmptyMap, extra |-> e.extra]
        ELSE IF HelpRequested(p)
          THEN [outcome |-> "Help", values |-> EmptyMap, extra |-> e.extra]
          ELSE LET s == ScanFrom(a, p, 0, EmptyMap)
               IN  IF s.kind # "ok"
                     THEN [outcome |-> s.kind, values |-> s.values, extra |-> e.extra]
                     ELSE LET d == ApplyDefaults(p, 1, s.values)
                          IN  [outcome |-> IF d.kind = "ok" THEN BindPath(d.values)
                                                            ELSE d.kind,
                               values |-> d.values, extra |-> e.extra]

----------------------------------------------------------------------------
(* Vocabulary of the specification, used to state the properties. *)

\* The names of the specs of the registry.
RegistryNames == { fc_args[k].name : k \in 1..Len(fc_args) }

SpecOf(name) == CHOOSE s \in { fc_args[k] : k \in 1..Len(fc_args) } : s.name = name

\* allowedValues of seccomp-level.
AllowedSeccomp == { Tok(0, "0"), Tok(0, "1"), Tok(0, "2") }

\* A flag token: begins with "--" and is not the bare separator.
FlagTokenAt(a, k) == k < Len(a) /\ starts_with(At(a, k)) /\ At(a, k) # Separator

NameAt(a, k) == trim_start_matches(At(a, k))

\* Index of the first bare separator, or Len(a) when there is none.
FirstSep(a) == IF Position(a) = {} THEN Len(a) ELSE CHOOSE k \in Position(a) : TRUE

\* Indexes of the invocation's tokens located before any bare separator.
BeforeSep(a) == 1..(FirstSep(a) - 1)

\* Names of the flag tokens of the whole invocation.
FlagNames(a) == { NameAt(a, k) : k \in { m \in 0..(Len(a) - 1) : FlagTokenAt(a, m) } }

\* Names of the flag tokens located before any bare separator.
FlagNamesBeforeSep(a) == { NameAt(a, k) : k \in { m \in BeforeSep(a) : FlagTokenAt(a, m) } }

HasHelpToken == "help" \in FlagNames(args)

InvocationIs(inv) == args = <<ProgramName>> \o inv

Done == pc = "done"

\* The scan is about to examine the flag token at index i.
AtFlag == pc = "scan" /\ FlagTokenAt(args, i)

\* ... and that token passes the unknown-name, conflict and dependency checks.
AtCheckedFlag ==
  /\ AtFlag
  /\ Contains(fc_args_str, NameAt(args, i))
  /\ NameAt(args, i) \in RegistryNames
  /\ check_is_valid(SpecOf(NameAt(args, i)), params) = "ok"

\* The invocation violates no constraint of the specification: before the
\* first separator every flag token is registered, has no conflict, has its
\* dependency, has its value when it takes one (an allowed one for
\* seccomp-level), and every bare token is the value of a value-taking flag.
ViolatesNoConstraint(a) ==
  \A k \in BeforeSep(a) :
    IF FlagTokenAt(a, k)
      THEN /\ NameAt(a, k) \in RegistryNames
           /\ \A c \in SpecOf(NameAt(a, k)).conflicts_with : c \notin FlagNamesBeforeSep(a)
           /\ \A r \in SpecOf(NameAt(a, k)).requires : r \in FlagNamesBeforeSep(a)
           /\ SpecOf(NameAt(a, k)).takes_value =>
                /\ k + 1 \in BeforeSep(a)
                /\ ~starts_with(At(a, k + 1))
                /\ NameAt(a, k) = "seccomp-level" => At(a, k + 1) \in AllowedSeccomp
      ELSE /\ k - 1 \in BeforeSep(a)
           /\ FlagTokenAt(a, k - 1)
           /\ NameAt(a, k - 1) \in RegistryNames
           /\ SpecOf(NameAt(a, k - 1)).takes_value

----------------------------------------------------------------------------
\* The step-by-step run ends as main computes it as a whole.
StepsAgreeWithMain ==
  Done => /\ outcome = Main(args).outcome
          /\ values = Main(args).values
          /\ fc_extra_args = Main(args).extra

\* C1: whenever a token whose prefix-stripped name is `help` appears in the
\* invocation, the run ends successfully in help mode: never in a validation
\* failure or another abnormal termination, and with no resolved mapping.
C1_HelpAlwaysSucceeds == (Done /\ HasHelpToken) => outcome = "Help"

\* C2: a non-help invocation that violates no constraint succeeds, and every
\* spec with a defaultValue whose flag is omitted is mapped to that default in
\* the resolved mapping.
C2_DefaultsApplied ==
  (Done /\ ~HasHelpToken /\ ViolatesNoConstraint(args)) =>
    /\ outcome = "Ok"
    /\ \A k \in 1..Len(fc_args) :
         (fc_args[k].default_value # {} /\ fc_args[k].name \notin FlagNamesBeforeSep(args)) =>
           /\ fc_args[k].name \in DOMAIN values
           /\ values[fc_args[k].name] \in fc_args[k].default_value

\* C3: when a (non-help) invocation contains a bare separator, the trailing
\* segment is exactly the tokens after the first separator, and the outcome
\* and the resolved mapping are those of the invocation cut right after that
\* separator.
C3_TrailingUnvalidated ==
  (Done /\ ~HasHelpToken /\ Position(args) # {}) =>
    LET cut == Main(SubSeq(args, 1, FirstSep(args) + 1))
    IN  /\ fc_extra_args = SubSeq(args, FirstSep(args) + 2, Len(args))
        /\ outcome = cut.outcome
        /\ outcome = "Ok" => values = cut.values

\* C4: in a non-help invocation, a flag token reached by the scan fails with
\* UnknownArgument if and only if its name is not the name of a registered
\* spec; the eight registered names are never rejected as unknown.
C4_UnknownIffUnregistered ==
  [][AtFlag => ((outcome' = "UnknownArgument") <=> (NameAt(args, i) \notin RegistryNames))]_vars

\* C5: `--no-api` alone fails with MissingDependency; `--no-api --config-file
\* foo.json` succeeds with no-api mapped to "" and config-file to foo.json;
\* `--config-file` without `--no-api` never fails with MissingDependency.
C5_NoApiRequiresConfigFile ==
  Done =>
    /\ InvocationIs(<<Tok(PrefixLen, "no-api")>>) => outcome = "MissingDependency"
    /\ InvocationIs(<<Tok(PrefixLen, "no-api"), Tok(PrefixLen, "config-file"),
                      Tok(0, "foo.json")>>) =>
         /\ outcome = "Ok"
         /\ {"no-api", "config-file"} \subseteq DOMAIN values
         /\ values["no-api"] = EmptyStr
         /\ values["config-file"] = Tok(0, "foo.json")
    /\ ("config-file" \in FlagNames(args) /\ "no-api" \notin FlagNames(args)) =>
         outcome # "MissingDependency"

\* C6: `--seccomp-level v` fails with InvalidEnumValue for every value token v
\* outside {0,1,2} and succeeds with seccomp-level mapped to v for v in
\* {0,1,2}; no successful run holds a seccomp-level outside {0,1,2}.
C6_SeccompLevelEnum ==
  Done =>
    /\ \A v \in ValueTokens :
         InvocationIs(<<Tok(PrefixLen, "seccomp-level"), v>>) =>
           IF v \in AllowedSeccomp
             THEN /\ outcome = "Ok"
                  /\ "seccomp-level" \in DOMAIN values
                  /\ values["seccomp-level"] = v
             ELSE outcome = "InvalidEnumValue"
    /\ (outcome = "Ok" /\ "seccomp-level" \in DOMAIN values) =>
         values["seccomp-level"] \in AllowedSeccomp

\* C7: every run that ends successfully outside help mode has a value for
\* api-sock in the resolved mapping.
C7_ApiSockOnSuccess == (Done /\ outcome = "Ok") => "api-sock" \in DOMAIN values

\* A successful run that supplied api-sock and another argument.
C7_Witness ==
  /\ Done
  /\ outcome = "Ok"
  /\ "api-sock" \in DOMAIN values
  /\ values["api-sock"] = Tok(0, "foo.json")
  /\ "id" \in DOMAIN values

\* C8: when the token after a value-taking flag token is absent or begins
\* with "--", the run fails with MissingValue; so no value of the resolved
\* mapping of a successful run begins with "--".
C8_ValueIsNeverAFlag ==
  [][/\ (/\ AtCheckedFlag
         /\ SpecOf(NameAt(args, i)).takes_value
         /\ \A x \in Get(args, i + 1) : starts_with(x)) => outcome' = "MissingValue"
     /\ outcome' = "Ok" => \A n \in DOMAIN values' : ~starts_with(values'[n])]_vars

\* C9: a known flag token that passes the conflict and dependency checks
\* fails with UnexpectedToken (a) when it takes no value and the next token is
\* a bare token, (b) when it takes a value and the token after its value is a
\* bare token; so in a successful run every bare token located before any
\* separator is the token right after a value-taking flag token.
C9_StrayTokensRejected ==
  [][/\ (/\ AtCheckedFlag
         /\ ~SpecOf(NameAt(args, i)).takes_value
         /\ \E x \in Get(args, i + 1) : ~starts_with(x)) => outcome' = "UnexpectedToken"
     /\ (/\ AtCheckedFlag
         /\ SpecOf(NameAt(args, i)).takes_value
         /\ Get(args, i + 1) # {}
         /\ \E x \in Get(args, i + 2) : ~starts_with(x)) => outcome' = "UnexpectedToken"
     /\ outcome' = "Ok" =>
          \A k \in BeforeSep(args) :
            ~starts_with(At(args, k)) =>
              /\ FlagTokenAt(args, k - 1)
              /\ NameAt(args, k - 1) \in RegistryNames
              /\ SpecOf(NameAt(args, k - 1)).takes_value]_vars

----------------------------------------------------------------------------
(* C10: the violations of one flag token, stated from the rules of the      *)
(* specification; the unknown-name check is the one against the catalog of  *)
(* known flag names.                                                        *)

KnownNames == { fc_args_str[k] : k \in 1..Len(fc_args_str) }

ScanFailures ==
  { "UnknownArgument", "ConflictingArgument", "MissingDependency",
    "MissingValue", "UnexpectedToken", "InvalidEnumValue" }

ValueViolations(a, k) ==
  IF SpecOf(NameAt(a, k)).takes_value
    THEN (IF k + 2 < Len(a) /\ ~starts_with(At(a, k + 2))
            THEN {"UnexpectedToken"} ELSE {})
         \cup (IF k + 1 >= Len(a) THEN {"MissingValue"} ELSE {})
         \cup (IF /\ NameAt(a, k) = "seccomp-level"
                  /\ k + 1 < Len(a)
                  /\ At(a, k + 1) \notin AllowedSeccomp
                 THEN {"InvalidEnumValue"} ELSE {})
    ELSE IF k + 1 < Len(a) /\ ~starts_with(At(a, k + 1))
           THEN {"UnexpectedToken"} ELSE {}

\* The failures the flag token at k may report: the first failing check in
\* the order unknown name, conflict, dependency, then the value checks.
Violations(a, k) ==
  IF NameAt(a, k) \notin KnownNames
    THEN {"UnknownArgument"}
    ELSE IF \E c \in SpecOf(NameAt(a, k)).conflicts_with : c \in FlagNames(a)
      THEN {"ConflictingArgument"}
      ELSE IF \E r \in SpecOf(NameAt(a, k)).requires : r \notin FlagNames(a)
        THEN {"MissingDependency"}
        ELSE ValueViolations(a, k)

\* C10: the scan index never decreases and nothing runs after the end; a
\* non-help run that fails during the scan stops at the leftmost flag token
\* that has a violation and reports that token's first failing check, in the
\* order unknown name, conflict, dependency, value checks; it produces no
\* resolved mapping.
C10_FailFastLeftmost ==
  [][/\ pc # "done"
     /\ i' >= i
     /\ (pc' = "done" /\ outcome' \in ScanFailures) =>
          /\ pc = "scan"
          /\ i' = i
          /\ FlagTokenAt(args, i)
          /\ outcome' \in Violations(args, i)
          /\ \A j \in 0..(i - 1) : FlagTokenAt(args, j) => Violations(args, j) = {}
     /\ (pc = "scan" /\ FlagTokenAt(args, i) /\ Violations(args, i) # {}) =>
          (pc' = "done" /\ outcome' \in ScanFailures)]_vars

\* A run that passed one flag token and failed on a later one that has both
\* a missing dependency and a stray token after it.
C10_Witness ==
  /\ Done
  /\ outcome = "MissingDependency"
  /\ \E j \in 0..(i - 1) : FlagTokenAt(args, j)
  /\ "UnexpectedToken" \in ValueViolations(args, i)

====
